---- MODULE Spec2Model ----
(***************************************************************************)
(* A model of the service worker src/sw.js: its install, activate, fetch   *)
(* and message handlers, over the Cache Storage of the origin and the      *)
(* network.  Every asynchronous operation of the worker (caches.open,      *)
(* cache.addAll, fetch, cache.put, caches.match, caches.delete) settles in *)
(* a step of its own, so that handlers interleave the way promise          *)
(* callbacks do.                                                           *)
(***************************************************************************)
EXTENDS Integers, Sequences, FiniteSets, Bags, TLC

VARIABLES
  phase,        \* lifecycle state of this worker version
  caches,       \* Cache Storage: sequence of [name, entries] in creation order
  ipc,          \* position of the install handler's promise chain
  staticOut,    \* how the fetches of cache.addAll settled, once they have
  ext,          \* per external asset: state of its fetch/put attempt
  apc,          \* position of the activate handler's promise chain
  cacheNames,   \* the array caches.keys() resolved with (activate)
  pendingDel,   \* caches.delete() calls of activate not yet settled
  claimed,      \* clients.claim() was called
  skipBy,       \* which handlers have called self.skipWaiting()
  lastMsg,      \* the last message event handled, and what its handler did
  events        \* the fetch events being handled: a bag of event records

vars == <<phase, caches, ipc, staticOut, ext, apc, cacheNames, pendingDel, claimed, skipBy, lastMsg, events>>

--------------------------------------------------------------------------
(* Program constants *)

CACHE_NAME == "anti333-cache-v2"

\* A URL is its origin and its pathname, the pathname split at "/" after the
\* leading slash: "/" is <<"">>, "/api/data" is <<"api", "data">>.
Url(origin, path) == [origin |-> origin, path |-> path]

Root == Url("self", <<"">>)

STATIC_ASSETS ==
  << Root,
     Url("self", <<"index.html">>),
     Url("self", <<"manifest.json">>),
     Url("self", <<"favicon-32.ico">>),
     Url("self", <<"favicon-96.png">>),
     Url("self", <<"apple-touch-icon.png">>),
     Url("self", <<"icon-192.png">>),
     Url("self", <<"icon-512.png">>) >>

EXTERNAL_ASSETS ==
  << Url("cdnjs.cloudflare.com", <<"ajax", "libs", "mammoth", "1.6.0", "mammoth.browser.min.js">>),
     Url("unpkg.com", <<"docx@8.5.0", "build", "index.umd.js">>),
     Url("cdnjs.cloudflare.com", <<"ajax", "libs", "FileSaver.js", "2.0.5", "FileSaver.min.js">>),
     Url("cdnjs.cloudflare.com", <<"ajax", "libs", "pdf.js", "3.11.174", "pdf.min.js">>),
     Url("cdnjs.cloudflare.com", <<"ajax", "libs", "pdf.js", "3.11.174", "pdf.worker.min.js">>),
     Url("cdnjs.cloudflare.com", <<"ajax", "libs", "jspdf", "2.5.1", "jspdf.umd.min.js">>) >>

SeqRange(s) == {s[i] : i \in 1..Len(s)}

StaticSet == SeqRange(STATIC_ASSETS)

ExternalSet == SeqRange(EXTERNAL_ASSETS)

\* Cache namespaces left behind by earlier worker versions.
StaleNames == {"anti333-cache-v1", "anti333-cache-v0"}

--------------------------------------------------------------------------
(* Responses *)

Resp(status, type, ctype, body) ==
  [status |-> status, type |-> type, ctype |-> ctype, body |-> body]

\* JavaScript's undefined: what caches.match resolves with when nothing
\* matches, and what a callback without a return statement yields.
Undefined == Resp(-1, "undefined", "", <<>>)

\* response.ok: the status is in the range 200-299.
Ok(r) == r.status >= 200 /\ r.status <= 299

\* Bodies the servers may serve; the content of a URL can change over time.
Bodies == {"v1", "v2"}

\* Bodies served while the worker installs.
InstallBodies == {"v1"}

\* A resource the origin server does not have: it answers 404 at best.
Gone == Url("self", <<"gone.png">>)

NoContent(url) == IF url.path \in {<<"gone.png">>, <<"legacy.png">>} THEN Bodies ELSE {}

\* What a fetch of a URL can resolve with.  The type is decided by the
\* origin and the request mode: same-origin responses are "basic",
\* cross-origin ones "cors" (mode cors) or "opaque" (mode no-cors, whose
\* status reads 0).
NetResponses(url, mode, bodies) ==
  IF url.origin = "self"
    THEN {Resp(200, "basic", "text", <<<<"content", b>>>>) : b \in bodies \ NoContent(url)}
           \cup {Resp(404, "basic", "text", <<<<"content", "not found">>>>)}
    ELSE IF mode = "no-cors"
      THEN {Resp(0, "opaque", "", <<>>)}
      ELSE {Resp(200, "cors", "text", <<<<"content", b>>>>) : b \in bodies}
             \cup {Resp(404, "cors", "text", <<<<"content", "not found">>>>)}

--------------------------------------------------------------------------
(* Cache Storage *)

EmptyEntries == [k \in {} |-> Undefined]

HasCache(cs, name) == \E i \in 1..Len(cs) : cs[i].name = name

\* caches.open(name): the cache of that name, created empty if absent.
CachesOpen(cs, name) ==
  IF HasCache(cs, name) THEN cs
  ELSE Append(cs, [name |-> name, entries |-> EmptyEntries])

\* A put that replaces the whole content of the cache by the one entry.
PutEntryAlone(e, key, r) == [k \in {key} |-> r]

PutEntry(e, key, r) ==
  [k \in (DOMAIN e) \cup {key} |-> IF k = key THEN r ELSE e[k]]

\* cache.put(key, response) on the cache of that name.
CachePut(cs, name, key, r) ==
  [i \in 1..Len(cs) |->
     IF cs[i].name = name
       THEN [cs[i] EXCEPT !.entries = PutEntry(@, key, r)]
       ELSE cs[i]]

\* The entries of the cache of that name (none when it does not exist).
Entries(cs, name) ==
  IF HasCache(cs, name)
    THEN (CHOOSE c \in SeqRange(cs) : c.name = name).entries
    ELSE EmptyEntries

\* caches.keys(): the names, in creation order.
CachesKeys(cs) == [i \in 1..Len(cs) |-> cs[i].name]

\* caches.delete(name).
CachesDelete(cs, name) == SelectSeq(cs, LAMBDA c : c.name # name)

\* caches.match(key) on the CacheStorage: the entry of the first cache, in
\* creation order, that holds the key; undefined when none does.
CachesMatch(cs, key) ==
  LET hits == {i \in 1..Len(cs) : key \in DOMAIN cs[i].entries}
  IN  IF hits = {} THEN Undefined
      ELSE cs[CHOOSE i \in hits : \A j \in hits : i <= j].entries[key]

--------------------------------------------------------------------------
(* The network *)

\* The rejection of a fetch promise (the network is unreachable).
NetworkError == Resp(-2, "error", "", <<>>)

\* How a fetch can settle: with a response, or rejected.
FetchOutcomes(url, mode, bodies) == NetResponses(url, mode, bodies) \cup {NetworkError}

--------------------------------------------------------------------------
(* Initial state: the worker script has been registered and its install    *)
(* event dispatched; earlier versions may have left namespaces behind.     *)

StaleCache(name) ==
  [name |-> name,
   entries |-> (Root :> Resp(200, "basic", "text", <<<<"content", "v0">>>>))]

InitialCaches ==
  { <<>>,
    <<StaleCache("anti333-cache-v0"), StaleCache("anti333-cache-v1")>> }

\* An external asset attempt: where it stands, what its fetch settled with
\* and how its put went.
ExtIdle == [st |-> "idle", out |-> Undefined, put |-> "none"]

\* The outcomes of addAll's fetches before they are known.
NotSettled == [u \in {} |-> Undefined]

\* A request: URL, method, mode and Accept header (which may be missing:
\* headers.get('accept') is then null).
Request(url, method, mode, hasAccept, accept) ==
  [url |-> url, method |-> method, mode |-> mode,
   accept |-> [present |-> hasAccept, types |-> accept]]


\* Fetch events handled at the same time.
MaxInFlight == 2

\* No message event has been handled yet.
NoMessage == [data |-> [present |-> FALSE, type |-> "<none>"], did |-> "none"]

Init ==
  /\ phase = "installing"
  /\ caches \in InitialCaches
  /\ ipc = "open"
  /\ staticOut = NotSettled
  /\ ext = [u \in ExternalSet |-> ExtIdle]
  /\ apc = "idle"
  /\ cacheNames = <<>>
  /\ pendingDel = {}
  /\ claimed = FALSE
  /\ skipBy = {}
  /\ lastMsg = NoMessage
  /\ events = EmptyBag

--------------------------------------------------------------------------
(* install (sw.js 23-48) *)

\* caches.open(CACHE_NAME) settles; its callback calls cache.addAll.
InstallOpen ==
  /\ phase = "installing" /\ ipc = "open"
  /\ caches' = CachesOpen(caches, CACHE_NAME)
  /\ ipc' = "addAll"
  /\ UNCHANGED <<phase, staticOut, ext, apc, cacheNames, pendingDel, claimed, skipBy, events, lastMsg>>

\* A bulk add that fails on unreachable entries only, not on non-ok ones.
AddAllSucceedsIfReachable(urls, out) == \A u \in urls : out[u] # NetworkError

\* cache.addAll(urls) with the given fetch outcomes: every response must be
\* ok, and then all are stored at once; otherwise nothing is stored.
AddAllSucceeds(urls, out) == \A u \in urls : out[u] # NetworkError /\ Ok(out[u])

AddAllStore(cs, name, urls, out) ==
  [i \in 1..Len(cs) |->
     IF cs[i].name = name
       THEN [cs[i] EXCEPT !.entries =
               [k \in (DOMAIN @) \cup urls |-> IF k \in urls THEN out[k] ELSE @[k]]]
       ELSE cs[i]]

\* The external asset fetches the .then callback of addAll starts.
ExternalStarted(urls) ==
  [u \in ExternalSet |-> IF u \in urls THEN [ExtIdle EXCEPT !.st = "fetching"] ELSE ExtIdle]

\* cache.addAll(STATIC_ASSETS) settles; on success the callback starts one
\* fetch per external asset, on failure the install promise rejects and the
\* later .then callbacks never run.
InstallAddAll ==
  /\ phase = "installing" /\ ipc = "addAll"
  /\ \E out \in [StaticSet -> FetchOutcomes(Root, "same-origin", InstallBodies)] :
       /\ staticOut' = out
       /\ IF AddAllSucceeds(StaticSet, out)
         THEN /\ caches' = AddAllStore(caches, CACHE_NAME, StaticSet, out)
              /\ ext' = ExternalStarted(ExternalSet)
              /\ ipc' = "external"
              /\ phase' = phase
         ELSE /\ ipc' = "rejected"
              /\ phase' = "redundant"
              /\ UNCHANGED <<caches, ext>>
  /\ UNCHANGED <<apc, cacheNames, pendingDel, claimed, skipBy, events, lastMsg>>

\* An attempt that puts whatever response the fetch resolves with.
ExtAfterFetchAnyStatus(out) ==
  IF out = NetworkError THEN [st |-> "caught", out |-> out, put |-> "none"]
  ELSE [st |-> "putting", out |-> out, put |-> "pending"]

\* What the .then / .catch chain of one external fetch does with the
\* outcome of fetch(url, {mode: 'cors'}): a rejection is caught and logged,
\* an ok response is put, any other response is dropped.
ExtAfterFetch(out) ==
  IF out = NetworkError THEN [st |-> "caught", out |-> out, put |-> "none"]
  ELSE IF Ok(out) THEN [st |-> "putting", out |-> out, put |-> "pending"]
  ELSE [st |-> "skipped", out |-> out, put |-> "none"]

ExtFetchSettle(u) ==
  /\ phase = "installing" /\ ipc = "external" /\ ext[u].st = "fetching"
  /\ \E out \in FetchOutcomes(u, "cors", InstallBodies) :
       ext' = [ext EXCEPT ![u] = ExtAfterFetch(out)]
  /\ UNCHANGED <<phase, caches, ipc, staticOut, apc, cacheNames, pendingDel, claimed, skipBy, events, lastMsg>>

\* cache.put(url, response) of an external asset settles: stored, or
\* rejected by the store and caught by the attempt's .catch.
ExtPutSettle(u) ==
  /\ phase = "installing" /\ ipc = "external" /\ ext[u].st = "putting"
  /\ \/ /\ caches' = CachePut(caches, CACHE_NAME, u, ext[u].out)
        /\ ext' = [ext EXCEPT ![u].st = "stored", ![u].put = "stored"]
     \/ /\ ext' = [ext EXCEPT ![u].st = "caught", ![u].put = "rejected"]
        /\ UNCHANGED caches
  /\ UNCHANGED <<phase, ipc, staticOut, apc, cacheNames, pendingDel, claimed, skipBy, events, lastMsg>>

\* An attempt whose callback does not return the promise of its put: it
\* settles when its fetch has.
ExtFetched(e) == e.st \in {"stored", "skipped", "caught", "putting"}

\* An attempt has settled: stored, skipped as not ok, or failed and caught.
ExtSettled(e) == e.st \in {"stored", "skipped", "caught"}

\* Promise.all over attempts without .catch: every one must have stored.
AllFulfilled(x) == \A u \in ExternalSet : x[u].st = "stored"

\* Promise.allSettled resolves once every attempt has settled.
AllSettled(x) == \A u \in ExternalSet : ExtSettled(x[u])

\* Promise.allSettled resolves; the last .then calls self.skipWaiting()
\* and the install promise resolves.
InstallFinish ==
  /\ phase = "installing" /\ ipc = "external"
  /\ AllSettled(ext)
  /\ skipBy' = skipBy \cup {"install"}
  /\ ipc' = "resolved"
  /\ phase' = "installed"
  /\ UNCHANGED <<caches, staticOut, ext, apc, cacheNames, pendingDel, claimed, lastMsg, events>>

--------------------------------------------------------------------------
(* activate (sw.js 51-67) *)

\* The platform dispatches activate to the installed worker; the handler
\* calls caches.keys().
ActivateStart ==
  /\ phase = "installed"
  /\ phase' = "activating"
  /\ apc' = "keys"
  /\ UNCHANGED <<caches, ipc, staticOut, ext, cacheNames, pendingDel, claimed, skipBy, events, lastMsg>>

\* No filter: every name is deleted.
StaleFilterNone(names) == SeqRange(names)

\* cacheNames.filter((name) => name !== CACHE_NAME)
StaleFilter(names) == {n \in SeqRange(names) : n # CACHE_NAME}

\* caches.keys() settles; the callback starts one caches.delete per name
\* that passes the filter.
ActivateKeys ==
  /\ phase = "activating" /\ apc = "keys"
  /\ cacheNames' = CachesKeys(caches)
  /\ pendingDel' = StaleFilter(CachesKeys(caches))
  /\ apc' = "deleting"
  /\ UNCHANGED <<phase, caches, ipc, staticOut, ext, claimed, skipBy, events, lastMsg>>

\* One caches.delete(name) settles.
ActivateDelete(n) ==
  /\ phase = "activating" /\ apc = "deleting" /\ n \in pendingDel
  /\ caches' = CachesDelete(caches, n)
  /\ pendingDel' = pendingDel \ {n}
  /\ UNCHANGED <<phase, ipc, staticOut, ext, apc, cacheNames, claimed, skipBy, events, lastMsg>>

\* A chain that does not wait for the deletions.
NoneAwaited(pending) == TRUE

\* Promise.all resolves once every deletion has settled.
AllDeleted(pending) == pending = {}

\* Promise.all resolves; the last .then calls self.clients.claim().
ActivateClaim ==
  /\ phase = "activating" /\ apc = "deleting"
  /\ AllDeleted(pendingDel)
  /\ claimed' = TRUE
  /\ apc' = "done"
  /\ phase' = "activated"
  /\ UNCHANGED <<caches, ipc, staticOut, ext, cacheNames, pendingDel, skipBy, events, lastMsg>>

--------------------------------------------------------------------------
(* message (sw.js 136-140) *)

\* event.data: absent, or an object with or without a type field.
MessageData ==
  { [present |-> FALSE, type |-> "<none>"],
    [present |-> TRUE, type |-> "<none>"],
    [present |-> TRUE, type |-> "SKIP_WAITING"],
    [present |-> TRUE, type |-> "OTHER"] }

\* event.data && event.data.type === 'SKIP_WAITING'
IsSkipWaiting(d) == d.present /\ d.type = "SKIP_WAITING"

\* The handler without its test of event.data: reading the type of a
\* missing data throws.
HandleMessageNoDataTest(d) ==
  IF ~d.present THEN "TypeError"
  ELSE IF d.type = "SKIP_WAITING" THEN "skipWaiting" ELSE "ignored"

\* What the handler does with a message: it calls self.skipWaiting(), or
\* it returns having done nothing.
HandleMessage(d) == IF IsSkipWaiting(d) THEN "skipWaiting" ELSE "ignored"

\* A message event is dispatched and its handler runs to its end.
Message(d) ==
  /\ phase # "redundant"
  /\ skipBy' = IF HandleMessage(d) = "skipWaiting" THEN skipBy \cup {"message"} ELSE skipBy
  /\ lastMsg' = [data |-> d, did |-> HandleMessage(d)]
  /\ UNCHANGED <<phase, caches, ipc, staticOut, ext, apc, cacheNames, pendingDel, claimed, events>>

LifecycleNext ==
  \/ InstallOpen
  \/ InstallAddAll
  \/ \E u \in ExternalSet : ExtFetchSettle(u)
  \/ \E u \in ExternalSet : ExtPutSettle(u)
  \/ InstallFinish
  \/ ActivateStart
  \/ ActivateKeys
  \/ \E n \in pendingDel : ActivateDelete(n)
  \/ ActivateClaim

\* The lifecycle of one worker version: install, then activate.
Spec == Init /\ [][LifecycleNext]_vars

MessageNext == \E d \in MessageData : Message(d)

--------------------------------------------------------------------------
(* fetch (sw.js 70-133) *)

IndexPage == Url("self", <<"index.html">>)

NewPage == Url("self", <<"new-page.html">>)

ApiData == Url("self", <<"api", "data">>)

OtherScript == Url("unpkg.com", <<"other.js">>)

\* An asset of an earlier version that the origin server has no more.
LegacyAsset == Url("self", <<"legacy.png">>)

\* The requests the pages make.
Requests ==
  { Request(ApiData, "GET", "cors", TRUE, {"application/json"}),
    Request(ApiData, "POST", "cors", TRUE, {"application/json"}),
    Request(IndexPage, "POST", "navigate", TRUE, {"text/html", "*/*"}),
    Request(Root, "GET", "navigate", TRUE, {"text/html", "*/*"}),
    Request(NewPage, "GET", "navigate", TRUE, {"text/html", "*/*"}),
    Request(Gone, "GET", "no-cors", TRUE, {"image/*", "*/*"}),
    Request(Gone, "GET", "no-cors", FALSE, {}),
    Request(OtherScript, "GET", "cors", TRUE, {"*/*"}),
    Request(OtherScript, "GET", "no-cors", TRUE, {"*/*"}),
    Request(LegacyAsset, "GET", "no-cors", TRUE, {"image/*", "*/*"}) }

\* A prefix test that wants one more path segment than "/api/" has.
IsApiOffByOne(url) == Len(url.path) >= 3 /\ url.path[1] = "api"

\* url.pathname.startsWith('/api/')
IsApi(url) == Len(url.path) >= 2 /\ url.path[1] = "api"

\* event.request.headers.get('accept').includes('text/html'), when the
\* header is there.
AcceptsHtml(req) == "text/html" \in req.accept.types

\* The substitute response of the API branch; its body is the JSON text of
\* an object with the one field error (the message, Russian in the source,
\* is transliterated here).
OfflineResponse ==
  Resp(503, "default", "application/json",
       <<<<"error", "Offline. Proverte podklyuchenie k internetu.">>>>)

\* A fetch event as dispatched, before its handler has run.
NewEvent(req) ==
  [pc |-> "dispatched", req |-> req,
   via |-> "none", result |-> Undefined, net |-> Undefined, put |-> "none",
   usedNet |-> FALSE, usedCache |-> FALSE, responded |-> FALSE]

\* The handler without its guard on the method.
HandleFetchNoMethodGuard(req) ==
  IF IsApi(req.url)
    THEN [NewEvent(req) EXCEPT !.pc = "api_fetch", !.responded = TRUE, !.usedNet = TRUE]
  ELSE [NewEvent(req) EXCEPT !.pc = "match", !.responded = TRUE, !.usedCache = TRUE]

\* The synchronous part of the handler: which branch takes the request.
HandleFetch(req) ==
  IF req.method # "GET"
    THEN [NewEvent(req) EXCEPT !.pc = "done", !.via = "passthrough"]
  ELSE IF IsApi(req.url)
    THEN [NewEvent(req) EXCEPT !.pc = "api_fetch", !.responded = TRUE, !.usedNet = TRUE]
  ELSE [NewEvent(req) EXCEPT !.pc = "match", !.responded = TRUE, !.usedCache = TRUE]

Handled == BagToSet(events)

\* The bag of events with event e having become event f.
Replace(e, f) == (events (-) SetToBag({e})) (+) SetToBag({f})

\* The platform dispatches a fetch event of a controlled page.
Dispatch(req) ==
  /\ phase = "activated"
  /\ BagCardinality(events) < MaxInFlight
  /\ events' = events (+) SetToBag({HandleFetch(req)})
  /\ UNCHANGED <<phase, caches, ipc, staticOut, ext, apc, cacheNames, pendingDel, claimed, skipBy, lastMsg>>

\* The API branch without its .catch: the rejection goes to respondWith.
ApiAfterFetchNoCatch(e, out) ==
  IF out = NetworkError
    THEN [e EXCEPT !.pc = "done", !.via = "rejected", !.net = out]
    ELSE [e EXCEPT !.pc = "done", !.via = "api", !.net = out, !.result = out]

\* fetch(event.request).catch(() => new Response(...)) of the API branch.
ApiAfterFetch(e, out) ==
  IF out = NetworkError
    THEN [e EXCEPT !.pc = "done", !.via = "api503", !.net = out, !.result = OfflineResponse]
    ELSE [e EXCEPT !.pc = "done", !.via = "api", !.net = out, !.result = out]

ApiSettle(e) ==
  /\ e.pc = "api_fetch"
  /\ \E out \in FetchOutcomes(e.req.url, e.req.mode, Bodies) :
       events' = Replace(e, ApiAfterFetch(e, out))
  /\ UNCHANGED <<phase, caches, ipc, staticOut, ext, apc, cacheNames, pendingDel, claimed, skipBy, lastMsg>>

\* A callback that on a hit returns the revalidation chain, so that the
\* caller waits for the network.
AfterMatchAwaitNetwork(e, cached) ==
  IF cached # Undefined
    THEN [e EXCEPT !.pc = "reval_fetch", !.via = "hit", !.usedNet = TRUE]
    ELSE [e EXCEPT !.pc = "miss_fetch", !.usedNet = TRUE]

\* The callback of caches.match(event.request): on a hit the cached
\* response is the result and a revalidation fetch starts under
\* event.waitUntil; on a miss the request goes to the network.
AfterMatch(e, cached) ==
  IF cached # Undefined
    THEN [e EXCEPT !.pc = "reval_fetch", !.via = "hit", !.result = cached, !.usedNet = TRUE]
    ELSE [e EXCEPT !.pc = "miss_fetch", !.usedNet = TRUE]

MatchSettle(e) ==
  /\ e.pc = "match"
  /\ events' = Replace(e, AfterMatch(e, CachesMatch(caches, e.req.url)))
  /\ UNCHANGED <<phase, caches, ipc, staticOut, ext, apc, cacheNames, pendingDel, claimed, skipBy, lastMsg>>

\* A revalidation that puts whatever response the network gives.
AfterRevalFetchAnyStatus(e, out) ==
  IF out # NetworkError
    THEN [e EXCEPT !.pc = "reval_put", !.net = out, !.put = "pending"]
    ELSE [e EXCEPT !.pc = "done", !.net = out]

\* The revalidation chain: an ok response is put (not awaited), anything
\* else, a rejection included, ends the chain.
AfterRevalFetch(e, out) ==
  IF out # NetworkError /\ Ok(out)
    THEN [e EXCEPT !.pc = "reval_put", !.net = out, !.put = "pending"]
    ELSE [e EXCEPT !.pc = "done", !.net = out]

RevalFetchSettle(e) ==
  /\ e.pc = "reval_fetch"
  /\ \E out \in FetchOutcomes(e.req.url, e.req.mode, Bodies) :
       events' = Replace(e, AfterRevalFetch(e, out))
  /\ UNCHANGED <<phase, caches, ipc, staticOut, ext, apc, cacheNames, pendingDel, claimed, skipBy, lastMsg>>

\* A put into the namespace of the version before.
OpenAndPutPrevious(cs, key, r) ==
  CachePut(CachesOpen(cs, "anti333-cache-v1"), "anti333-cache-v1", key, r)

\* A put that keeps an entry already there (cache.add-if-absent).
OpenAndPutIfAbsent(cs, key, r) ==
  IF key \in DOMAIN Entries(cs, CACHE_NAME) THEN cs
  ELSE CachePut(CachesOpen(cs, CACHE_NAME), CACHE_NAME, key, r)

\* caches.open(CACHE_NAME).then((cache) => cache.put(event.request, r))
OpenAndPut(cs, key, r) == CachePut(CachesOpen(cs, CACHE_NAME), CACHE_NAME, key, r)

\* The put of either branch settles: applied, or rejected by the store
\* (nothing handles that rejection).
PutSettle(e) ==
  /\ e.pc \in {"reval_put", "miss_put"}
  /\ \/ /\ caches' = OpenAndPut(caches, e.req.url, e.net)
        /\ events' = Replace(e, [e EXCEPT !.pc = "done", !.put = "stored"])
     \/ /\ events' = Replace(e, [e EXCEPT !.pc = "done", !.put = "rejected"])
        /\ UNCHANGED caches
  /\ UNCHANGED <<phase, ipc, staticOut, ext, apc, cacheNames, pendingDel, claimed, skipBy, lastMsg>>

\* The test without its check of the response type.
CacheableAnyType(r) == Ok(r)

\* response.ok && response.type === 'basic'
Cacheable(r) == Ok(r) /\ r.type = "basic"

\* The cache-miss chain: a response is returned, and a clone is put when
\* cacheable; a rejection runs the .catch callback, which returns
\* caches.match('/') for an HTML request, returns nothing otherwise, and
\* throws when the Accept header is missing (null.includes).
AfterMissFetch(e, out) ==
  IF out # NetworkError
    THEN IF Cacheable(out)
           THEN [e EXCEPT !.pc = "miss_put", !.via = "miss", !.result = out,
                          !.net = out, !.put = "pending"]
           ELSE [e EXCEPT !.pc = "done", !.via = "miss", !.result = out, !.net = out]
  ELSE IF ~e.req.accept.present
    THEN [e EXCEPT !.pc = "done", !.via = "rejected", !.net = out]
  ELSE IF AcceptsHtml(e.req)
    THEN [e EXCEPT !.pc = "fallback_match", !.net = out]
  ELSE [e EXCEPT !.pc = "done", !.via = "undefined", !.net = out]

MissFetchSettle(e) ==
  /\ e.pc = "miss_fetch"
  /\ \E out \in FetchOutcomes(e.req.url, e.req.mode, Bodies) :
       events' = Replace(e, AfterMissFetch(e, out))
  /\ UNCHANGED <<phase, caches, ipc, staticOut, ext, apc, cacheNames, pendingDel, claimed, skipBy, lastMsg>>

\* The key of the offline fallback: caches.match('/').
FallbackKey == Root

\* The callback without its return statement: the match is dropped.
AfterFallbackNoReturn(e, cached) == [e EXCEPT !.pc = "done", !.via = "fallback"]

\* caches.match('/') settles; whatever it resolves with is the result.
AfterFallback(e, cached) == [e EXCEPT !.pc = "done", !.via = "fallback", !.result = cached]

FallbackSettle(e) ==
  /\ e.pc = "fallback_match"
  /\ events' = Replace(e, AfterFallback(e, CachesMatch(caches, FallbackKey)))
  /\ UNCHANGED <<phase, caches, ipc, staticOut, ext, apc, cacheNames, pendingDel, claimed, skipBy, lastMsg>>

\* The event is over: its promises have settled and its record is dropped.
Retire(e) ==
  /\ e.pc = "done"
  /\ events' = events (-) SetToBag({e})
  /\ UNCHANGED <<phase, caches, ipc, staticOut, ext, apc, cacheNames, pendingDel, claimed, skipBy, lastMsg>>

\* The event's lifetime is extended while a promise handed to
\* event.respondWith or event.waitUntil is unsettled.  The respondWith
\* promise settles when the API fetch settles, on a hit when the callback
\* of caches.match returns the cached response, on a miss when the callback
\* of the fetch returns (or when the fallback match settles); the
\* waitUntil promise of a hit settles when the callback of the
\* revalidation fetch returns.  No callback returns the promise of its
\* put, so neither promise waits for it.
LifetimeExtended(e) ==
  e.pc \in {"api_fetch", "match", "reval_fetch", "miss_fetch", "fallback_match"}

\* With no event's lifetime extended the platform may stop the idle
\* worker: what its events still had under way is lost.
Terminate ==
  /\ events # EmptyBag
  /\ \A e \in Handled : ~LifetimeExtended(e)
  /\ events' = EmptyBag
  /\ UNCHANGED <<phase, caches, ipc, staticOut, ext, apc, cacheNames, pendingDel, claimed, skipBy, lastMsg>>

\* The steps of the fetch events under way.
FetchSteps ==
  \/ \E e \in Handled : ApiSettle(e)
  \/ \E e \in Handled : MatchSettle(e)
  \/ \E e \in Handled : RevalFetchSettle(e)
  \/ \E e \in Handled : MissFetchSettle(e)
  \/ \E e \in Handled : FallbackSettle(e)
  \/ \E e \in Handled : PutSettle(e)
  \/ \E e \in Handled : Retire(e)
  \/ Terminate

FetchNext ==
  \/ \E req \in Requests : Dispatch(req)
  \/ FetchSteps

\* The cache the install step leaves: every static asset, and the external
\* assets whose attempt stored them; a page of the origin, which shares the
\* Cache Storage, may have added entries of its own.
InstalledCache(stored, byPage) ==
  [name |-> CACHE_NAME,
   entries |-> [k \in StaticSet \cup stored \cup byPage |->
                  IF k \in StaticSet \cup byPage
                    THEN Resp(200, "basic", "text", <<<<"content", "v1">>>>)
                    ELSE Resp(200, "cors", "text", <<<<"content", "v1">>>>)]]

\* A namespace of the previous version that is there again: the Cache
\* Storage is shared by the origin, and a put of the previous worker that
\* was still in flight when activate deleted the namespace has opened it
\* anew.  caches.match of this version sees it as well.
LeftoverCache ==
  [name |-> "anti333-cache-v1",
   entries |-> [k \in {Root, LegacyAsset} |-> Resp(200, "basic", "text", <<<<"content", "v0">>>>)]]

\* The worker once installed and activated, with no event being handled: a
\* state the lifecycle reaches (here with every external asset but the
\* second stored), in which a page has cached an API response by itself
\* and the previous version has left a namespace.
FetchInit ==
  /\ phase = "activated"
  /\ \E stored \in {ExternalSet \ {EXTERNAL_ASSETS[2]}} :
       /\ caches = <<InstalledCache(stored, {ApiData}), LeftoverCache>>
       /\ ext = [u \in ExternalSet |->
                   IF u \in stored
                     THEN [st |-> "stored", put |-> "stored",
                           out |-> Resp(200, "cors", "text", <<<<"content", "v1">>>>)]
                     ELSE [st |-> "caught", put |-> "none", out |-> NetworkError]]
  /\ ipc = "resolved"
  /\ staticOut = [u \in StaticSet |-> Resp(200, "basic", "text", <<<<"content", "v1">>>>)]
  /\ apc = "done"
  /\ cacheNames = <<CACHE_NAME>>
  /\ pendingDel = {}
  /\ claimed = TRUE
  /\ skipBy = {"install"}
  /\ lastMsg = NoMessage
  /\ events = EmptyBag

\* The activated worker handling the fetch events of its pages.
FetchSpec == FetchInit /\ [][FetchNext]_vars

Next == LifecycleNext \/ MessageNext \/ FetchNext

\* The whole worker: lifecycle, then fetch events.
WorkerSpec == Init /\ [][Next]_vars

--------------------------------------------------------------------------
(* The worker from late in its install step on *)

\* The external assets whose attempts have stored them by then.
LateStored == {EXTERNAL_ASSETS[i] : i \in {1, 3, 4, 5}}

\* Install with the static assets stored and every external attempt
\* settled but the last, whose fetch is still out; two namespaces of
\* earlier versions are there.
LateInit ==
  /\ phase = "installing"
  /\ caches = <<StaleCache("anti333-cache-v0"), StaleCache("anti333-cache-v1"),
                InstalledCache(LateStored, {})>>
  /\ ipc = "external"
  /\ staticOut = [u \in StaticSet |-> Resp(200, "basic", "text", <<<<"content", "v1">>>>)]
  /\ ext = [u \in ExternalSet |->
              IF u \in LateStored
                THEN [st |-> "stored", put |-> "stored",
                      out |-> Resp(200, "cors", "text", <<<<"content", "v1">>>>)]
              ELSE IF u = EXTERNAL_ASSETS[6]
                THEN [ExtIdle EXCEPT !.st = "fetching"]
              ELSE [st |-> "caught", put |-> "none", out |-> NetworkError]]
  /\ apc = "idle"
  /\ cacheNames = <<>>
  /\ pendingDel = {}
  /\ claimed = FALSE
  /\ skipBy = {}
  /\ lastMsg = NoMessage
  /\ events = EmptyBag

\* The steps of install and activate that are left from there.
LateLifecycle ==
  \/ \E u \in ExternalSet : ExtFetchSettle(u)
  \/ \E u \in ExternalSet : ExtPutSettle(u)
  \/ InstallFinish
  \/ ActivateStart
  \/ ActivateKeys
  \/ \E n \in pendingDel : ActivateDelete(n)
  \/ ActivateClaim

\* The worker finishing its install and being activated while the pages
\* post messages to it.
ControlSpec == LateInit /\ [][LateLifecycle \/ MessageNext]_vars

\* The requests of a page that asks for the API, the root document and a
\* page not cached yet.
LateRequests ==
  {req \in Requests : req.method = "GET" /\ req.url \in {ApiData, Root, NewPage}}

LateNext ==
  \/ LateLifecycle
  \/ \E req \in LateRequests : Dispatch(req)
  \/ FetchSteps

\* The worker finishing its install, being activated and then handling the
\* fetch events of such a page.
LateSpec == LateInit /\ [][LateNext]_vars

--------------------------------------------------------------------------
(* Properties *)

\* The events a step adds, removes or changes.
ChangedEvents ==
  {f \in BagToSet(events) \cup BagToSet(events') :
     CopiesIn(f, events) # CopiesIn(f, events')}

\* A step in which event e becomes event f.
Becomes(e, f) ==
  /\ e \in BagToSet(events)
  /\ events' = (events (-) SetToBag({e})) (+) SetToBag({f})

\* The pathname of the request begins with "/api/".
PathBeginsWithApi(req) == Len(req.url.path) > 1 /\ Head(req.url.path) = "api"

\* The body is the JSON text of an object with a field of that name.
HasJsonField(r, name) == \E i \in 1..Len(r.body) : r.body[i][1] = name

CurrentEntries == Entries(caches, CACHE_NAME)

(* C1: a GET request to a path under /api/ whose network fetch fails is     *)
(* answered, not rejected, with a response of status 503, Content-Type      *)
(* application/json and a JSON body with an error field, whatever the       *)
(* caches hold.                                                             *)
C1_ApiOfflineResponse ==
  \A e \in BagToSet(events) :
    (e.req.method = "GET" /\ PathBeginsWithApi(e.req) /\ e.net = NetworkError)
      => /\ e.pc = "done" /\ e.responded
         /\ e.via # "rejected" /\ e.result # Undefined
         /\ e.result.status = 503
         /\ e.result.ctype = "application/json"
         /\ HasJsonField(e.result, "error")

\* An API request was answered 503 while the current cache held an entry
\* for its URL.
C1_Witness ==
  \E e \in BagToSet(events) :
    /\ e.req.method = "GET" /\ PathBeginsWithApi(e.req) /\ e.net = NetworkError
    /\ e.pc = "done" /\ e.result.status = 503
    /\ e.req.url \in DOMAIN CurrentEntries

C2_NonGetState ==
  \A e \in BagToSet(events) :
    e.req.method # "GET"
      => /\ e.pc = "done" /\ e.via = "passthrough"
         /\ ~e.responded /\ ~e.usedNet /\ ~e.usedCache
         /\ e.result = Undefined /\ e.net = Undefined /\ e.put = "none"

C2_NonGetStep ==
  /\ ChangedEvents # {}
  /\ \A f \in ChangedEvents : f.req.method # "GET"

(* C2: a request whose method is not GET is not intercepted: the handler    *)
(* calls no respondWith, issues no fetch, makes no cache lookup and no      *)
(* cache write, and the steps of such an event leave every cache as it was. *)
C2_NonGetNotIntercepted ==
  /\ []C2_NonGetState
  /\ [][C2_NonGetStep => caches' = caches]_vars

\* A POST to a cached page, and a POST to the API, were passed through.
C2_Witness ==
  /\ \E e \in BagToSet(events) :
       /\ e.req.method = "POST" /\ e.req.url \in DOMAIN CurrentEntries
       /\ ~PathBeginsWithApi(e.req) /\ e.pc = "done" /\ e.via = "passthrough"
  /\ \E e \in BagToSet(events) :
       /\ e.req.method = "POST" /\ PathBeginsWithApi(e.req)
       /\ e.pc = "done" /\ e.via = "passthrough"

\* A response (neither undefined nor a rejection).
IsResponse(r) == r # Undefined /\ r # NetworkError

\* The entries stored under the key in any cache.
CachedUnder(cs, key) ==
  {cs[i].entries[key] : i \in {j \in 1..Len(cs) : key \in DOMAIN cs[j].entries}}

\* The caches change only in a step that completes a put.
PutFrame == (\A f \in ChangedEvents : f.put # "stored") => caches' = caches

C3_HitState ==
  \A e \in BagToSet(events) :
    e.via = "hit"
      => /\ e.responded /\ IsResponse(e.result)
         /\ e.pc \in {"reval_fetch", "reval_put", "done"}
         /\ e.pc = "reval_put" => (Ok(e.net) /\ e.put = "pending")
         /\ e.pc = "done" => (Ok(e.net) <=> e.put \in {"stored", "rejected"})

C3_ServedFromCache ==
  \A e \in BagToSet(events), f \in BagToSet(events') :
    (e.pc = "match" /\ Becomes(e, f) /\ CachedUnder(caches, e.req.url) # {})
      => /\ f.via = "hit" /\ f.pc = "reval_fetch"
         /\ f.result \in CachedUnder(caches, e.req.url)

C3_Overwrites ==
  \A e \in BagToSet(events), f \in BagToSet(events') :
    (e.via = "hit" /\ e.pc = "reval_put" /\ Becomes(e, f) /\ f.put = "stored")
      => /\ e.req.url \in DOMAIN Entries(caches', CACHE_NAME)
         /\ Entries(caches', CACHE_NAME)[e.req.url] = e.net
         /\ \A k \in (DOMAIN CurrentEntries) \ {e.req.url} :
              Entries(caches', CACHE_NAME)[k] = CurrentEntries[k]

StaticFailures ==
  {u \in DOMAIN staticOut : staticOut[u] = NetworkError \/ ~Ok(staticOut[u])}

(* C4: when an entry of the static list is unreachable or not ok, install   *)
(* fails as a whole: its promise rejects, no static entry is in the current *)
(* namespace, no external asset is fetched or stored, and install does not  *)
(* call skipWaiting.                                                        *)
C4_InstallAllOrNothing ==
  StaticFailures # {}
    => /\ ipc = "rejected" /\ phase = "redundant"
       /\ (DOMAIN CurrentEntries) \cap (StaticSet \cup ExternalSet) = {}
       /\ \A u \in ExternalSet : ext[u].st = "idle" /\ ext[u].out = Undefined
       /\ "install" \notin skipBy

\* Only /manifest.json failed, with a 404, and install was rejected.
C4_Witness ==
  /\ StaticFailures = {Url("self", <<"manifest.json">>)}
  /\ staticOut[Url("self", <<"manifest.json">>)].status = 404
  /\ ipc = "rejected"
  /\ HasCache(caches, CACHE_NAME)

(* C5: once the static assets are in, the external attempts are independent: *)
(* whichever of them fail (network failure, non-ok response, rejected put),  *)
(* every attempt whose fetch was ok and whose put was not rejected has       *)
(* stored its response, install never rejects, and once all attempts have    *)
(* settled it completes with skipWaiting.                                    *)
C5_ExternalIndependent ==
  /\ \A u \in ExternalSet :
       (Ok(ext[u].out) /\ ext[u].put \notin {"pending", "rejected"})
         => (u \in DOMAIN CurrentEntries /\ CurrentEntries[u] = ext[u].out)
  /\ (\E u \in ExternalSet : ext[u].st # "idle") => ipc \in {"external", "resolved"}
  /\ (ipc = "external" /\ \A u \in ExternalSet : ext[u].st \notin {"idle", "fetching", "putting"})
       => ENABLED InstallFinish
  /\ ipc = "resolved"
       => /\ "install" \in skipBy
          /\ \A u \in ExternalSet : ext[u].st \notin {"idle", "fetching", "putting"}

\* Install completed with one external asset unreachable, one not ok, one
\* whose put was rejected, and the others stored.
C5_Witness ==
  /\ ipc = "resolved" /\ phase = "installed"
  /\ ext[EXTERNAL_ASSETS[1]].out = NetworkError
  /\ ext[EXTERNAL_ASSETS[2]].out.status = 404
  /\ ext[EXTERNAL_ASSETS[3]].put = "rejected"
  /\ \A i \in 4..6 : EXTERNAL_ASSETS[i] \in DOMAIN CurrentEntries
  /\ \A i \in 1..3 : EXTERNAL_ASSETS[i] \notin DOMAIN CurrentEntries

C6_Cleaned ==
  phase = "activated"
    => /\ \A n \in StaleNames \cup SeqRange(cacheNames) :
            n # CACHE_NAME => ~HasCache(caches, n)
       /\ HasCache(caches, CACHE_NAME)

C6_CurrentUntouched ==
  phase \in {"installed", "activating"}
    => /\ HasCache(caches', CACHE_NAME)
       /\ Entries(caches', CACHE_NAME) = CurrentEntries

(* C6: once activate has completed, every namespace that existed before it  *)
(* under another name than CACHE_NAME is gone, and the current namespace is *)
(* there with the entries it had before.                                    *)
C6_ActivateCleansStale ==
  /\ []C6_Cleaned
  /\ [][C6_CurrentUntouched]_vars

\* Two stale namespaces were listed and deleted; the current one is left.
C6_Witness ==
  /\ phase = "activated" /\ claimed
  /\ Len(cacheNames) = 3
  /\ CachesKeys(caches) = <<CACHE_NAME>>
  /\ StaticSet \subseteq DOMAIN CurrentEntries
  /\ EXTERNAL_ASSETS[1] \in DOMAIN CurrentEntries

\* A GET outside /api/ that missed the cache and whose fetch was rejected.
ColdFailure(e) ==
  /\ e.req.method = "GET" /\ ~PathBeginsWithApi(e.req)
  /\ e.via # "hit" /\ e.net = NetworkError

C7_FallbackState ==
  \A e \in BagToSet(events) :
    (ColdFailure(e) /\ "text/html" \in e.req.accept.types)
      => /\ e.pc \in {"fallback_match", "done"}
         /\ e.pc = "done" => (e.via = "fallback" /\ IsResponse(e.result))

C7_FallbackStep ==
  \A e \in BagToSet(events), f \in BagToSet(events') :
    (e.pc = "fallback_match" /\ Becomes(e, f))
      => f.result \in CachedUnder(caches, Root)

(* C7: a GET outside /api/ that misses the cache, whose fetch fails and     *)
(* whose Accept header includes text/html is answered with the entry cached *)
(* for "/".                                                                 *)
C7_OfflineFallback ==
  /\ []C7_FallbackState
  /\ [][C7_FallbackStep]_vars

\* /new-page.html fell back to the entry of "/", which by then was the
\* revalidated one.
C7_Witness ==
  \E e \in BagToSet(events) :
    /\ ColdFailure(e) /\ e.req.url = NewPage /\ e.pc = "done"
    /\ e.result = CurrentEntries[Root]
    /\ e.result.body = <<<<"content", "v2">>>>

(* C8: a GET outside /api/ that misses the cache, whose fetch fails and     *)
(* whose Accept header does not include text/html is not caught: the        *)
(* promise handed to respondWith rejects.                                   *)
C8_ColdFailureRejects ==
  \A e \in BagToSet(events) :
    (ColdFailure(e) /\ "text/html" \notin e.req.accept.types /\ e.pc = "done")
      => e.via = "rejected"

C9_MissState ==
  \A e \in BagToSet(events) :
    (e.req.method = "GET" /\ ~PathBeginsWithApi(e.req) /\ e.via # "hit" /\ IsResponse(e.net))
      => /\ e.via = "miss" /\ e.responded
         /\ e.result = e.net
         /\ (Ok(e.net) /\ e.net.type = "basic") <=> e.put # "none"

C9_Stores ==
  \A e \in BagToSet(events), f \in BagToSet(events') :
    (e.via = "miss" /\ e.pc = "miss_put" /\ Becomes(e, f) /\ f.put = "stored")
      => /\ e.req.url \in DOMAIN Entries(caches', CACHE_NAME)
         /\ Entries(caches', CACHE_NAME)[e.req.url] = e.result

C10_ApiState ==
  \A e \in BagToSet(events) :
    (e.req.method = "GET" /\ PathBeginsWithApi(e.req))
      => /\ e.responded /\ ~e.usedCache /\ e.put = "none"
         /\ e.pc \in {"api_fetch", "done"}
         /\ IsResponse(e.net) => (e.pc = "done" /\ e.result = e.net)

C10_ApiStep ==
  /\ ChangedEvents # {}
  /\ \A f \in ChangedEvents : PathBeginsWithApi(f.req)

(* C10: a request to a path under /api/ neither reads nor writes a cache:   *)
(* its steps leave every cache as it was, and when the network answers, the *)
(* network response is what the caller receives.                            *)
C10_ApiNeverCached ==
  /\ []C10_ApiState
  /\ [][C10_ApiStep => caches' = caches]_vars

\* The caller got the network's answer although the cache held another
\* entry for the URL, which is still there.
C10_Witness ==
  \E e \in BagToSet(events) :
    /\ e.req.method = "GET" /\ PathBeginsWithApi(e.req) /\ e.pc = "done"
    /\ Ok(e.result) /\ e.result = e.net
    /\ e.req.url \in DOMAIN CurrentEntries
    /\ CurrentEntries[e.req.url] # e.result

\* What a message step leaves alone: everything but the record of
\* skipWaiting calls and the record of the message itself.
MessageFrame ==
  UNCHANGED <<phase, caches, ipc, staticOut, ext, apc, cacheNames, pendingDel, claimed, events>>

C11_MessageState ==
  lastMsg # NoMessage
    => /\ lastMsg.did \in {"skipWaiting", "ignored"}
       /\ lastMsg.did = "skipWaiting"
            <=> (lastMsg.data.present /\ lastMsg.data.type = "SKIP_WAITING")
       /\ lastMsg.did = "skipWaiting" => "message" \in skipBy

C11_MessageStep ==
  lastMsg' # lastMsg
    => /\ MessageFrame
       /\ skipBy' = IF lastMsg'.data.present /\ lastMsg'.data.type = "SKIP_WAITING"
                      THEN skipBy \cup {"message"} ELSE skipBy

(* C11: the message handler calls skipWaiting exactly when the message has  *)
(* data whose type is 'SKIP_WAITING'; on any other message (no data, no     *)
(* type, another type) it calls nothing, throws nothing and leaves the      *)
(* caches, the fetch events and the lifecycle as they were.                 *)
C11_MessageSkipWaiting ==
  /\ []C11_MessageState
  /\ [][C11_MessageStep]_vars

\* A message without data was ignored by the waiting worker after a
\* SKIP_WAITING message had been obeyed.
C11_Witness ==
  /\ lastMsg # NoMessage /\ ~lastMsg.data.present /\ lastMsg.did = "ignored"
  /\ skipBy = {"install", "message"}
  /\ phase = "installed"

\* The key an event's cached response was looked up under.
LookupKey(e) == IF e.via = "fallback" THEN Root ELSE e.req.url

(* C12: whenever the fetch handler serves a cached response, on a hit or as *)
(* the offline fallback, the key it was looked up under is in the current   *)
(* namespace (which never loses an entry while fetch events are handled),   *)
(* the response being an entry of that namespace and not one held only by   *)
(* another.                                                                 *)
C12_ServedFromCurrent ==
  \A e \in BagToSet(events) :
    (e.via \in {"hit", "fallback"} /\ IsResponse(e.result))
      => LookupKey(e) \in DOMAIN CurrentEntries

(* C13: every cache write a fetch handler has started is covered by the    *)
(* event's lifetime extension: while the put of the revalidation or of the *)
(* cache-miss path is pending, a promise handed to waitUntil or            *)
(* respondWith is still unsettled, so the platform may not stop the worker.*)
C13_PutsCovered ==
  \A e \in BagToSet(events) :
    e.put = "pending" => (LifetimeExtended(e) /\ ~ENABLED Terminate)

\* A GET request outside /api/.
CacheFirst(e) == e.req.method = "GET" /\ ~PathBeginsWithApi(e.req)

C14_LookupFirst ==
  \A e \in BagToSet(events) :
    CacheFirst(e)
      => /\ e.pc = "match" => (~e.usedNet /\ e.net = Undefined)
         /\ e.pc \in {"reval_fetch", "reval_put"}
              => (e.via = "hit" /\ e.responded /\ IsResponse(e.result))
         /\ e.pc = "reval_fetch" => e.net = Undefined

C14_Delivered ==
  \A e \in BagToSet(events), f \in BagToSet(events') :
    (e.via = "hit" /\ Becomes(e, f)) => (f.via = "hit" /\ f.result = e.result)

(* C14: within one fetch event on a GET outside /api/, no fetch is issued   *)
(* before the cache lookup has completed; on a hit the cached response is   *)
(* the event's result from the moment the revalidation fetch is issued,     *)
(* before its outcome is known, and it stays the result whatever the        *)
(* revalidation and its put do.                                             *)
C14_LookupBeforeRevalidation ==
  /\ []C14_LookupFirst
  /\ [][C14_Delivered]_vars

\* The revalidation of "/" has brought a fresh body and its put is still
\* pending: the caller has the old entry.
C14_Witness ==
  \E e \in BagToSet(events) :
    /\ e.req.url = Root /\ e.via = "hit" /\ e.pc = "reval_put"
    /\ e.result.body = <<<<"content", "v1">>>>
    /\ e.net.body = <<<<"content", "v2">>>>

\* The ok responses the network can give for a key, each one complete.
OkSnapshots(key) ==
  {r \in UNION {NetResponses(key, m, Bodies) : m \in {"navigate", "cors", "no-cors"}} : Ok(r)}

\* The namespaces other than the current one, with their entries.
OtherCaches(cs) == {cs[i] : i \in {j \in 1..Len(cs) : cs[j].name # CACHE_NAME}}

C15_PutApplied ==
  \A e \in BagToSet(events), f \in BagToSet(events') :
    (e.pc \in {"reval_put", "miss_put"} /\ f.put = "stored" /\ Becomes(e, f))
      => /\ e.net \in OkSnapshots(e.req.url)
         /\ DOMAIN Entries(caches', CACHE_NAME) = (DOMAIN CurrentEntries) \cup {e.req.url}
         /\ Entries(caches', CACHE_NAME)[e.req.url] = e.net
         /\ \A k \in (DOMAIN CurrentEntries) \ {e.req.url} :
              Entries(caches', CACHE_NAME)[k] = CurrentEntries[k]
         /\ OtherCaches(caches') = OtherCaches(caches)

C15_NoLoss ==
  caches' # caches
    => /\ DOMAIN CurrentEntries \subseteq DOMAIN Entries(caches', CACHE_NAME)
       /\ \A k \in DOMAIN CurrentEntries :
            \/ Entries(caches', CACHE_NAME)[k] = CurrentEntries[k]
            \/ Entries(caches', CACHE_NAME)[k] \in OkSnapshots(k)

(* C15: with several fetch events for one key in flight, each put that is   *)
(* applied makes the key's entry the whole response of the event that put   *)
(* it, an ok response of the network, so after any interleaving the entry   *)
(* is the response put last; no step removes an entry or leaves a mixed     *)
(* one, and a put changes no entry under another key or in another          *)
(* namespace.                                                               *)
C15_LastWriteWins == [][C15_PutApplied /\ C15_NoLoss]_vars

\* Two events for "/" were both served the old entry and have both put,
\* one a fresh body and the other the old one again: the entry is the
\* fresh body, whose put came last.
C15_Witness ==
  \E e1, e2 \in BagToSet(events) :
    /\ e1.req.url = Root /\ e2.req.url = Root
    /\ e1.put = "stored" /\ e2.put = "stored"
    /\ e1.net.body = <<<<"content", "v2">>>> /\ e2.net.body = <<<<"content", "v1">>>>
    /\ e1.result.body = <<<<"content", "v1">>>> /\ e2.result.body = <<<<"content", "v1">>>>
    /\ CurrentEntries[Root] = e1.net

\* The namespaces activate set out to delete.
ListedStale == {n \in SeqRange(cacheNames) : n # CACHE_NAME}

C16_NoPendingOnceClaimed == claimed => pendingDel = {}

C16_ClaimStep ==
  (~claimed /\ claimed')
    => /\ phase = "activating"
       /\ pendingDel = {}
       /\ \A n \in ListedStale : ~HasCache(caches, n)

(* C16: activate calls clients.claim only after every deletion it started   *)
(* has completed: at the step that claims, no deletion is pending and every *)
(* namespace listed under another name is gone, and no deletion is pending  *)
(* at any time after.                                                       *)
C16_ClaimAfterDeletions ==
  /\ []C16_NoPendingOnceClaimed
  /\ [][C16_ClaimStep]_vars

\* The pages were claimed after both stale namespaces had been deleted.
C16_Witness ==
  /\ claimed /\ apc = "done"
  /\ ListedStale = StaleNames
  /\ \A n \in StaleNames : ~HasCache(caches, n)

\* No fetch and no put of an external asset is under way or yet to start.
NoExternalPending(x) ==
  \A u \in ExternalSet : x[u].st \notin {"idle", "fetching", "putting"} /\ x[u].put # "pending"

C17_SkipState ==
  "install" \in skipBy
    => /\ StaticSet \subseteq DOMAIN CurrentEntries
       /\ StaticFailures = {}
       /\ NoExternalPending(ext)

C17_SkipStep ==
  ("install" \notin skipBy /\ "install" \in skipBy')
    => /\ phase = "installing"
       /\ StaticSet \subseteq DOMAIN CurrentEntries
       /\ NoExternalPending(ext)
       /\ ext' = ext /\ caches' = caches

(* C17: install calls skipWaiting only on completion: at the step that      *)
(* calls it the static assets are stored and every external attempt has     *)
(* settled (stored, skipped as not ok, or failed), no fetch or put of an    *)
(* external asset being pending then or after.                              *)
C17_SkipWaitingOnCompletion ==
  /\ []C17_SkipState
  /\ [][C17_SkipStep]_vars

\* Install called skipWaiting with one attempt stored, one skipped on a
\* 404, one unreachable and one whose put the store rejected.
C17_Witness ==
  /\ "install" \in skipBy
  /\ ext[EXTERNAL_ASSETS[1]].st = "stored"
  /\ ext[EXTERNAL_ASSETS[2]].st = "skipped"
  /\ ext[EXTERNAL_ASSETS[3]].out = NetworkError
  /\ ext[EXTERNAL_ASSETS[4]].put = "rejected"

\* The fetch failed, or its response is not ok.
FailedOrNotOk(r) == r = NetworkError \/ (IsResponse(r) /\ ~(r.status \in 200..299))

C18_FailedState ==
  \A e \in BagToSet(events) :
    (e.via = "hit" /\ FailedOrNotOk(e.net))
      => /\ e.pc = "done" /\ e.put = "none"
         /\ e.responded /\ IsResponse(e.result)

C18_FailedStep ==
  \A e \in BagToSet(events), f \in BagToSet(events') :
    (e.pc = "reval_fetch" /\ Becomes(e, f) /\ FailedOrNotOk(f.net))
      => /\ caches' = caches
         /\ f.via = "hit" /\ f.result = e.result
         /\ f.pc = "done" /\ f.put = "none"

(* C18: when the revalidation fetch of a cached GET request fails or        *)
(* returns a response that is not ok, the step leaves every cache entry as  *)
(* it was, the chain ends there without a put and without an error, and the *)
(* caller keeps the cached response it was given.                           *)
C18_RevalidationFailureSilent ==
  /\ []C18_FailedState
  /\ [][C18_FailedStep]_vars

\* "/" was served from the cache twice; one revalidation found the network
\* unreachable, the other got a 404, and the entry is what it was.
C18_Witness ==
  \E e1, e2 \in BagToSet(events) :
    /\ e1.req.url = Root /\ e2.req.url = Root
    /\ e1.via = "hit" /\ e2.via = "hit" /\ e1.pc = "done" /\ e2.pc = "done"
    /\ e1.net = NetworkError /\ e2.net.status = 404
    /\ CurrentEntries[Root] = e1.result /\ CurrentEntries[Root] = e2.result

C19_NoStaleOnceActivated ==
  phase = "activated" => CachesKeys(caches) = <<CACHE_NAME>>

C19_OthersNeverGrow ==
  caches' # caches => OtherCaches(caches') \subseteq OtherCaches(caches)

StorableOk(r) == IsResponse(r) /\ r.status \in 200..299 /\ r # OfflineResponse

C20_EntriesOk == \A k \in DOMAIN CurrentEntries : StorableOk(CurrentEntries[k])

C20_WritesOk ==
  caches' # caches
    => \A k \in DOMAIN Entries(caches', CACHE_NAME) :
         (k \notin DOMAIN CurrentEntries \/ Entries(caches', CACHE_NAME)[k] # CurrentEntries[k])
           => StorableOk(Entries(caches', CACHE_NAME)[k])

(* C20: every entry the worker writes into the current namespace is a       *)
(* response with ok status: no step of the external-asset attempts, of a    *)
(* revalidation or of the cache-miss path writes a response that is not ok, *)
(* and the 503 substitute of the API branch is stored under no key.         *)
C20_OnlyOkStored ==
  /\ []C20_EntriesOk
  /\ [][C20_WritesOk]_vars

\* The last external asset answered 404 and was skipped; later a 404 went
\* to the caller of a missing page unstored, and an API call got the 503.
C20_Witness ==
  /\ ext[EXTERNAL_ASSETS[6]].out.status = 404
  /\ EXTERNAL_ASSETS[6] \notin DOMAIN CurrentEntries
  /\ \E e \in BagToSet(events) :
       /\ e.via = "miss" /\ e.pc = "done" /\ e.result.status = 404
       /\ e.req.url \notin DOMAIN CurrentEntries
  /\ \E e \in BagToSet(events) :
       /\ e.pc = "done" /\ e.result = OfflineResponse
       /\ e.req.url \notin DOMAIN CurrentEntries

====
